---- MODULE Spec2Model ----
(***************************************************************************)
(* Model of weekly_digest.py: the retrying fetcher get_with_retry, the     *)
(* batched quote client yf_quotes, the headline client news_for, the line  *)
(* formatter fmt_line, the optional summarizer ai_summarize, the delivery  *)
(* client send_telegram and the pipeline main that drives them.            *)
(*                                                                         *)
(* Strings.  A short ASCII string of the program is a TLA+ string.  A      *)
(* string that is long or holds non-ASCII characters is a named block:     *)
(* a TLA+ string in angle brackets whose number of characters is given by  *)
(* BlockSize.  A line of the report is a sequence of such parts.  A text   *)
(* (raw_msg, final_msg) is a sequence of pieces [s, n]: the first n        *)
(* characters of the part s; slicing text[:k] is Take(text, k).            *)
(*                                                                         *)
(* A value that may be None is a sequence: <<>> for None, <<v>> for v.     *)
(***************************************************************************)
EXTENDS Integers, Sequences, FiniteSets, TLC

VARIABLES
    pc,            \* position of main
    tickers,       \* data.get("tickers", [])
    indices,       \* data.get("indices", [])
    lines,         \* main's list of report lines
    url,           \* yf_quotes: the symbols of the batch query, comma-joined
    attempt,       \* get_with_retry: loop variable (= requests issued so far)
    last_exc,      \* get_with_retry: last recorded exception, or None
    all429,        \* get_with_retry: every failed request of this call was a 429
    lastKind,      \* get_with_retry: kind of the latest answer, or None
    sleep_s,       \* get_with_retry: latest sleep, in tenths of a second
    r,             \* get_with_retry: returned response, or None
    exc,           \* exception in flight (raised, not yet handled), or None
    quotes,        \* main's quote map: symbol -> quote record
    yahoo_failed,  \* main's flag
    ti,            \* headlines loop: index of the next ticker
    news,          \* headlines loop: what each news_for call gave (None: it raised)
    raw_msg,       \* main's raw report text
    summary,       \* result of ai_summarize, or None
    final_msg,     \* main's final text
    sent,          \* texts POSTed to the chat endpoint
    oplog          \* calls made and exceptions raised so far, in order

vars == <<pc, tickers, indices, lines, url, attempt, last_exc, all429, lastKind,
          sleep_s, r, exc, quotes, yahoo_failed, ti, news, raw_msg,
          summary, final_msg, sent, oplog>>

None == <<>>
Some(v) == <<v>>

\* entries of oplog: a call of `op` with the argument `arg`, or an exception
\* leaving `arg`
Call(op, arg) == [op |-> op, arg |-> arg]
Raised(from) == [op |-> "raise", arg |-> from]

\* ------------------------------------------------------------------ bounds

\* len(tickers) + len(indices) of the watchlists explored
MaxSymbols == 2

\* characters of the long headline the feed may hold
LongTitleLen == 2500
\* characters of a brief longer than the message cap
LongSummaryLen == 4000

\* largest limit news_for is applied with
MaxLimit == 4

\* ---------------------------------------------------------- program constants

\* get_with_retry(url, max_tries=6)
MaxTries == 6
\* raw_msg[:3800] and final_msg[:3800]
MsgCap == 3800
\* details[:2000]
DetailsCap == 2000
\* news_for(t, limit=3)
NewsLimit == 3

\* ------------------------------------------------------------------ strings

\* number of characters (code points) of each named block
BlockSize ==
    [b \in {"<title>", "<generated: >", "<now_utc>", "<your stocks>",
            "<market pulse>", "<headlines>", "<warning>", "<brief title>",
            "<dash>", "<details title>", "<nl>", "<long title>",
            "<long summary>"} |->
        CASE b = "<title>"         -> 32    \* "📊 Weekly Market & Economy Update"
          [] b = "<generated: >"   -> 13    \* "🕒 Generated: "
          [] b = "<now_utc>"       -> 20    \* "%Y-%m-%d %H:%M UTC"
          [] b = "<your stocks>"   -> 13    \* "💼 Your Stocks"
          [] b = "<market pulse>"  -> 14    \* "🌍 Market Pulse"
          [] b = "<headlines>"     -> 11    \* "📰 Headlines"
          [] b = "<warning>"       -> 80    \* "⚠️ Note: price data fetch failed ..."
          [] b = "<brief title>"   -> 17    \* "🧠 AI Weekly Brief"
          [] b = "<dash>"          -> 1     \* "—"
          [] b = "<details title>" -> 9     \* "📌 Details"
          [] b = "<nl>"            -> 1     \* "\n"
          [] b = "<long title>"    -> LongTitleLen
          [] b = "<long summary>"  -> LongSummaryLen]

Size(s) == IF s \in DOMAIN BlockSize THEN BlockSize[s] ELSE Len(s)

Piece(s) == [s |-> s, n |-> Size(s)]

NL == Piece("<nl>")

RECURSIVE TextLenFrom(_, _)
TextLenFrom(text, i) ==
    IF i > Len(text) THEN 0 ELSE text[i].n + TextLenFrom(text, i + 1)

\* len(text)
TextLen(text) == TextLenFrom(text, 1)

RECURSIVE TakeFrom(_, _, _)
\* the first k characters of the pieces i, i+1, ... of text
TakeFrom(text, i, k) ==
    IF i > Len(text) \/ k <= 0 THEN <<>>
    ELSE IF text[i].n <= k
         THEN <<text[i]>> \o TakeFrom(text, i + 1, k - text[i].n)
         ELSE <<[s |-> text[i].s, n |-> k]>>

\* text[:k]
Take(text, k) == TakeFrom(text, 1, k)

\* the pieces of one line: its parts that are not empty
LinePieces(line) ==
    LET parts == SelectSeq(line, LAMBDA x : Size(x) > 0)
    IN  [i \in 1..Len(parts) |-> Piece(parts[i])]

RECURSIVE JoinFrom(_, _)
JoinFrom(ls, i) ==
    IF i > Len(ls) THEN <<>>
    ELSE IF i = Len(ls) THEN LinePieces(ls[i])
    ELSE LinePieces(ls[i]) \o <<NL>> \o JoinFrom(ls, i + 1)

\* "\n".join(lines)
JoinLines(ls) == JoinFrom(ls, 1)

RECURSIVE Strip(_)
\* s.strip(), for the blank character
Strip(s) ==
    IF s \in DOMAIN BlockSize \/ Len(s) = 0 THEN s
    ELSE IF SubSeq(s, 1, 1) = " " THEN Strip(SubSeq(s, 2, Len(s)))
    ELSE IF SubSeq(s, Len(s), Len(s)) = " " THEN Strip(SubSeq(s, 1, Len(s) - 1))
    ELSE s

\* ------------------------------------------------------------------- inputs

\* symbols the two lists of a watchlist may hold (opaque strings; "" is the
\* empty string, AAPL may be in both lists)
TickerSymbols == {"AAPL", "MSFT"}
IndexSymbols == {"^GSPC", "AAPL", ""}

RECURSIVE SeqsUpTo(_, _)
SeqsUpTo(S, n) ==
    IF n = 0 THEN {<<>>}
    ELSE LET shorter == SeqsUpTo(S, n - 1)
         IN  shorter \cup {Append(q, x) : q \in {p \in shorter : Len(p) = n - 1}, x \in S}

\* the watchlists of holdings.json explored: <<tickers, indices>>
Watchlists ==
    {w \in SeqsUpTo(TickerSymbols, MaxSymbols) \X SeqsUpTo(IndexSymbols, MaxSymbols) :
        Len(w[1]) + Len(w[2]) <= MaxSymbols}

\* one entry of the quote service's result list; a price is the text Python
\* prints for the number, a change percent is in thousandths of a percent
Entry(sym, price, pct, cur) ==
    [symbol |-> sym, shortName |-> None, longName |-> None,
     regularMarketPrice |-> price, regularMarketChange |-> None,
     regularMarketChangePercent |-> pct, currency |-> cur]

\* the result lists the quote service may answer with; the last one names
\* AAPL twice
ResultLists ==
    { <<>>,
      <<Entry("AAPL", Some("150.0"), Some(1234), Some("USD")),
        Entry("^GSPC", Some("4500.5"), None, Some("USD"))>>,
      <<Entry("^GSPC", Some("0"), Some(-1), None),
        Entry("AAPL", None, Some(-567), Some("USD"))>>,
      <<Entry("AAPL", None, None, None),
        Entry("AAPL", Some("99.5"), Some(-12346), Some("EUR"))>> }

\* a body r.json() cannot parse
BadJson == [json |-> FALSE, result |-> <<>>]

\* bodies of a 200 answer
Bodies == {[json |-> TRUE, result |-> l] : l \in ResultLists} \cup {BadJson}

\* what one request may answer: a success, a rate limit, another error
\* status, or no answer at all (requests.get raises)
AnswerKinds == {"200", "429", "500", "conn"}

\* random.uniform(0.5, 1.5), in tenths
Jitters == {5, 15}

\* ----------------------------------------------------------- get_with_retry

\* mutant: the loop runs one pass too few
InLoopShort(a) == a < MaxTries - 1

\* for attempt in range(max_tries)
InLoop(a) == a < MaxTries

\* mutant: the delay grows by one second per attempt
SleepLinear(a, jitter) == 10 * (a + 1) + jitter

\* (2 ** attempt) + random.uniform(0.5, 1.5), in tenths
SleepFor(a, jitter) == 10 * (2 ^ a) + jitter

\* the value of last_exc after the answer `kind` to request `a`
Record(prev, kind, a) ==
    CASE kind = "conn" -> Some([type |-> "ConnectionError", status |-> 0, at |-> a])
      [] kind = "500"  -> Some([type |-> "HTTPError", status |-> 500, at |-> a])
      [] OTHER         -> prev

\* raise last_exc
Raise(e) ==
    IF e = None
    THEN [type |-> "TypeError", status |-> 0, at |-> MaxTries]
    ELSE e[1]

\* the frame of get_with_retry is gone once its caller has taken the result
FrameGone ==
    /\ attempt' = 0
    /\ last_exc' = None
    /\ all429' = TRUE
    /\ lastKind' = None
    /\ sleep_s' = 0
    /\ r' = None

\* one pass of the loop body: a request, its answer, and the sleep after a
\* failure
GetAttempt ==
    /\ pc = "get"
    /\ InLoop(attempt)
    /\ \E kind \in AnswerKinds, jitter \in Jitters :
        /\ all429' = (all429 /\ kind \in {"429", "200"})
        /\ lastKind' = Some(kind)
        /\ IF kind = "200"
           THEN /\ r' = Some([status |-> 200, at |-> attempt])
                /\ pc' = "parse"
                /\ UNCHANGED <<attempt, last_exc, sleep_s>>
           ELSE /\ last_exc' = Record(last_exc, kind, attempt)
                /\ sleep_s' = SleepFor(attempt, jitter)
                /\ attempt' = attempt + 1
                /\ UNCHANGED <<pc, r>>
    /\ UNCHANGED <<news, tickers, indices, lines, url, exc, quotes, yahoo_failed, ti,
                   raw_msg, summary, final_msg, sent, oplog>>

\* the loop is over without a return: raise last_exc
GetExhausted ==
    /\ pc = "get"
    /\ ~InLoop(attempt)
    /\ exc' = Some(Raise(last_exc))
    /\ oplog' = Append(oplog, Raised("yf_quotes"))
    /\ pc' = "except"
    /\ UNCHANGED <<news, tickers, indices, lines, url, attempt, last_exc, all429,
                   lastKind, sleep_s, r, quotes, yahoo_failed, ti, raw_msg,
                   summary, final_msg, sent>>

\* ---------------------------------------------------------------- yf_quotes

\* mutant: duplicates are kept
DedupKeepsAll(symbols) == SelectSeq(symbols, LAMBDA x : x # "")

RECURSIVE DedupFrom(_, _)
DedupFrom(symbols, seenSyms) ==
    IF symbols = <<>> THEN <<>>
    ELSE LET s == Head(symbols)
         IN  IF s # "" /\ s \notin seenSyms
             THEN <<s>> \o DedupFrom(Tail(symbols), seenSyms \cup {s})
             ELSE DedupFrom(Tail(symbols), seenSyms)

\* [s for s in symbols if s and not (s in seen or seen.add(s))]
Dedup(symbols) == DedupFrom(symbols, {})

RECURSIVE JoinComma(_)
\* ",".join(symbols)
JoinComma(symbols) ==
    IF symbols = <<>> THEN ""
    ELSE IF Len(symbols) = 1 THEN Head(symbols)
    ELSE Head(symbols) \o "," \o JoinComma(Tail(symbols))

\* x or y
Or(x, y) == IF x = None THEN y ELSE x

EmptyMap == [s \in {} |-> None]

\* out[sym] = {...}
Put(out, sym, q) ==
    [s \in DOMAIN out \cup {sym} |-> IF s = sym THEN q ELSE out[s]]

RECURSIVE BuildQuotes(_, _)
\* for q in data: out[sym] = {...}
BuildQuotes(data, out) ==
    IF data = <<>> THEN out
    ELSE LET q == Head(data)
             sym == q.symbol
         IN  BuildQuotes(Tail(data),
                 Put(out, sym,
                     [symbol |-> sym,
                      name |-> Or(Or(q.shortName, q.longName), Some(sym)),
                      price |-> q.regularMarketPrice,
                      change |-> q.regularMarketChange,
                      change_pct |-> q.regularMarketChangePercent,
                      currency |-> q.currency]))

\* yf_quotes up to its call of get_with_retry
YfQuotesCall ==
    /\ pc = "quotes"
    /\ url' = JoinComma(Dedup(tickers \o indices))
    /\ oplog' = Append(oplog, Call("yf_quotes", url'))
    /\ pc' = "get"
    /\ UNCHANGED <<news, tickers, indices, lines, attempt, last_exc, all429, lastKind,
                   sleep_s, r, exc, quotes, yahoo_failed, ti, raw_msg, summary,
                   final_msg, sent>>

\* yf_quotes after get_with_retry has returned r: r.json() reads the body
\* and the loop builds the map; an exception of r.json() leaves yf_quotes
YfQuotesParse ==
    /\ pc = "parse"
    /\ \E body \in Bodies :
        IF body.json
        THEN /\ quotes' = BuildQuotes(body.result, EmptyMap)
             /\ pc' = "compose"
             /\ UNCHANGED <<exc, oplog>>
        ELSE /\ exc' = Some([type |-> "JSONDecodeError", status |-> 0, at |-> r[1].at])
             /\ oplog' = Append(oplog, Raised("yf_quotes"))
             /\ pc' = "except"
             /\ UNCHANGED quotes
    /\ FrameGone
    /\ UNCHANGED <<news, tickers, indices, lines, url, yahoo_failed, ti, raw_msg,
                   summary, final_msg, sent>>

\* ----------------------------------------------------------------- fmt_line

\* two decimal digits
TwoDigits(n) == IF n < 10 THEN "0" \o ToString(n) ELSE ToString(n)

\* mutant: the format is .2f, a positive change has no sign
FormatPctNoSign(c) ==
    LET mag == IF c < 0 THEN -c ELSE c
        hundredths == (mag + 5) \div 10
    IN  (IF c < 0 THEN "-" ELSE "")
        \o ToString(hundredths \div 100) \o "." \o TwoDigits(hundredths % 100)

\* f"{cpct:+.2f}" of a change percent given in thousandths: the sign is always
\* written, the magnitude is rounded to hundredths (no value explored is a
\* tie)
FormatPct(c) ==
    LET mag == IF c < 0 THEN -c ELSE c
        hundredths == (mag + 5) \div 10
    IN  (IF c < 0 THEN "-" ELSE "+")
        \o ToString(hundredths \div 100) \o "." \o TwoDigits(hundredths % 100)

\* fmt_line(sym, q), q the result of quotes.get(sym)
FmtLine(sym, q) ==
    IF q = None
    THEN <<"- " \o sym \o ": (no data)">>
    ELSE LET price == q[1].price
             cpct == q[1].change_pct
             cur == Or(q[1].currency, Some(""))[1]
         IN  IF price = None \/ cpct = None
             THEN <<"- " \o sym \o ": (no data)">>
             ELSE <<"- " \o sym \o ": " \o price[1] \o " " \o cur
                    \o " (" \o FormatPct(cpct[1]) \o "%)">>

\* quotes.get(sym)
Get(qs, sym) == IF sym \in DOMAIN qs THEN Some(qs[sym]) ELSE None

RECURSIVE QuoteLinesSkipMissing(_, _)
\* mutant: a symbol without a quote gets no line
QuoteLinesSkipMissing(syms, qs) ==
    IF syms = <<>> THEN <<>>
    ELSE (IF Get(qs, Head(syms)) = None THEN <<>>
          ELSE <<FmtLine(Head(syms), Get(qs, Head(syms)))>>)
         \o QuoteLinesSkipMissing(Tail(syms), qs)

RECURSIVE QuoteLinesReversed(_, _)
\* mutant: the lines are written last symbol first
QuoteLinesReversed(syms, qs) ==
    IF syms = <<>> THEN <<>>
    ELSE QuoteLinesReversed(Tail(syms), qs) \o <<FmtLine(Head(syms), Get(qs, Head(syms)))>>

RECURSIVE QuoteLines(_, _)
\* for t in syms: lines.append(fmt_line(t, quotes.get(t)))
QuoteLines(syms, qs) ==
    IF syms = <<>> THEN <<>>
    ELSE <<FmtLine(Head(syms), Get(qs, Head(syms)))>> \o QuoteLines(Tail(syms), qs)

\* mutant: an empty list gets no placeholder
QuoteSectionNoPlaceholder(syms, qs, placeholder) == QuoteLines(syms, qs)

\* one section of quotes: the placeholder when the list is empty
QuoteSection(syms, qs, placeholder) ==
    IF syms = <<>> THEN <<placeholder>> ELSE QuoteLines(syms, qs)

\* ----------------------------------------------------------------- news_for

\* the feeds the news service may answer with: the titles of the entries, in
\* feed order, None for an entry without a title
Feeds ==
    { <<>>,
      <<Some(" Apple up "), None, Some("  "), Some("Fed holds")>>,
      <<Some("<long title>"), Some("<long title>")>> }

\* mutant: every entry of the feed is taken
FirstNAll(s, n) == s

\* feed.entries[:limit]
FirstN(s, n) == SubSeq(s, 1, IF Len(s) < n THEN Len(s) ELSE n)

RECURSIVE Titles(_)
\* the loop of news_for over the entries taken
Titles(entries) ==
    IF entries = <<>> THEN <<>>
    ELSE LET t == Strip(Or(Head(entries), Some(""))[1])
         IN  (IF t # "" THEN <<t>> ELSE <<>>) \o Titles(Tail(entries))

\* news_for(ticker, limit) on a feed
NewsFor(feed, limit) == Titles(FirstN(feed, limit))

RECURSIVE HeadlineLinesOk(_, _)
\* for h in hs: lines.append(f"- {t}: {h}")
HeadlineLinesOk(t, hs) ==
    IF hs = <<>> THEN <<>>
    ELSE <<<<"- " \o t \o ": ", Head(hs)>>>> \o HeadlineLinesOk(t, Tail(hs))

\* the body of the headlines loop for ticker t: feed is None when news_for
\* raised, else the feed it read
HeadlineLines(t, feed) ==
    IF feed = None
    THEN <<<<"- " \o t \o ": (news fetch failed)">>>>
    ELSE LET hs == NewsFor(feed[1], NewsLimit)
         IN  IF hs = <<>>
             THEN <<<<"- " \o t \o ": (no headlines found)">>>>
             ELSE HeadlineLinesOk(t, hs)

\* --------------------------------------------------------------------- main

\* lines 153-167: the watchlist is read and the header is written
Start ==
    /\ pc = "start"
    /\ \E w \in Watchlists :
        /\ tickers' = w[1]
        /\ indices' = w[2]
    /\ lines' = << <<"<title>">>, <<"<generated: >", "<now_utc>">>, <<"">> >>
    /\ quotes' = EmptyMap
    /\ yahoo_failed' = FALSE
    /\ pc' = "quotes"
    /\ UNCHANGED <<news, url, attempt, last_exc, all429, lastKind, sleep_s, r, exc, ti,
                   raw_msg, summary, final_msg, sent, oplog>>

\* mutant: no try/except around yf_quotes, the exception leaves main
QuotesNoExcept ==
    /\ pc = "except"
    /\ pc' = "crashed"
    /\ UNCHANGED <<tickers, indices, lines, url, attempt, last_exc, all429,
                   lastKind, sleep_s, r, exc, quotes, yahoo_failed, ti, news,
                   raw_msg, summary, final_msg, sent, oplog>>

\* mutant: the handler forgets the flag
QuotesExceptNoFlag ==
    /\ pc = "except"
    /\ quotes' = EmptyMap
    /\ exc' = None
    /\ FrameGone
    /\ pc' = "compose"
    /\ UNCHANGED <<tickers, indices, lines, url, yahoo_failed, ti, news, raw_msg,
                   summary, final_msg, sent, oplog>>

\* lines 170-172: except Exception around yf_quotes
QuotesExcept ==
    /\ pc = "except"
    /\ yahoo_failed' = TRUE
    /\ quotes' = EmptyMap
    /\ exc' = None
    /\ FrameGone
    /\ pc' = "compose"
    /\ UNCHANGED <<news, tickers, indices, lines, url, ti, raw_msg, summary,
                   final_msg, sent, oplog>>

\* lines 174-194: the holdings section, the indices section and the head of
\* the headlines section
Compose ==
    /\ pc = "compose"
    /\ lines' = lines
          \o << <<"<your stocks>">> >>
          \o QuoteSection(tickers, quotes, <<"- (no tickers in holdings.json)">>)
          \o << <<"">>, <<"<market pulse>">> >>
          \o QuoteSection(indices, quotes, <<"- (no indices in holdings.json)">>)
          \o << <<"">>, <<"<headlines>">> >>
          \o (IF tickers = <<>>
              THEN << <<"- (no tickers to fetch news for)">> >>
              ELSE <<>>)
    /\ ti' = 1
    /\ pc' = "headlines"
    /\ UNCHANGED <<news, tickers, indices, url, attempt, last_exc, all429, lastKind,
                   sleep_s, r, exc, quotes, yahoo_failed, raw_msg, summary,
                   final_msg, sent, oplog>>

\* mutant: the try/except is around the whole loop, a failure ends it
HeadlineStepAbort ==
    /\ pc = "headlines"
    /\ ti <= Len(tickers)
    /\ \E feed \in {None} \cup {Some(f) : f \in Feeds} :
        /\ lines' = lines \o HeadlineLines(tickers[ti], feed)
        /\ news' = Append(news, IF feed = None THEN None
                                ELSE Some(NewsFor(feed[1], NewsLimit)))
        /\ oplog' = oplog \o <<Call("news_for", tickers[ti])>>
                    \o (IF feed = None THEN <<Raised("news_for")>> ELSE <<>>)
        /\ ti' = IF feed = None THEN Len(tickers) + 1 ELSE ti + 1
    /\ UNCHANGED <<pc, tickers, indices, url, attempt, last_exc, all429, lastKind,
                   sleep_s, r, exc, quotes, yahoo_failed, raw_msg, summary,
                   final_msg, sent>>

\* lines 196-205: one pass of the headlines loop, when news_for raises (feed
\* is None) or reads the feed
HeadlineStepWith(feed) ==
    /\ pc = "headlines"
    /\ ti <= Len(tickers)
    /\ lines' = lines \o HeadlineLines(tickers[ti], feed)
    /\ news' = Append(news, IF feed = None THEN None
                            ELSE Some(NewsFor(feed[1], NewsLimit)))
    /\ oplog' = oplog \o <<Call("news_for", tickers[ti])>>
                \o (IF feed = None THEN <<Raised("news_for")>> ELSE <<>>)
    /\ ti' = ti + 1
    /\ UNCHANGED <<pc, tickers, indices, url, attempt, last_exc, all429, lastKind,
                   sleep_s, r, exc, quotes, yahoo_failed, raw_msg, summary,
                   final_msg, sent>>

\* lines 196-205: one pass of the headlines loop
HeadlineStep ==
    \E feed \in {None} \cup {Some(f) : f \in Feeds} : HeadlineStepWith(feed)

\* mutant: the warning section is always written
WarningAlways(failed) == << <<"">>, <<"<warning>">> >>

\* if yahoo_failed: the warning section
Warning(failed) ==
    IF failed THEN << <<"">>, <<"<warning>">> >> ELSE <<>>

\* lines 207-212: the warning section, then raw_msg
FinishReport ==
    /\ pc = "headlines"
    /\ ti > Len(tickers)
    /\ \E report \in {lines \o Warning(yahoo_failed)} :
        /\ lines' = report
        /\ \E joined \in {JoinLines(report)} :
              raw_msg' = Take(joined, MsgCap)
    /\ pc' = "summarize"
    /\ UNCHANGED <<news, tickers, indices, url, attempt, last_exc, all429, lastKind,
                   sleep_s, r, exc, quotes, yahoo_failed, ti, summary,
                   final_msg, sent, oplog>>

\* ------------------------------------------------------------- ai_summarize

\* what client.responses.create may do: raise, or answer with output_text
AiAnswers ==
    {[raises |-> TRUE, output_text |-> None]}
    \cup {[raises |-> FALSE, output_text |-> t] :
            t \in {None, Some(""), Some("  "), Some(" Markets rose. "),
                   Some("<long summary>")}}

\* mutant: the text of the service is returned as it is
AiSummarizeNoStrip(key, answer) ==
    IF key = None \/ key = Some("") THEN None
    ELSE IF answer.raises THEN None
    ELSE LET text == Or(answer.output_text, Some(""))[1]
         IN  IF text # "" THEN Some(text) ELSE None

\* ai_summarize(raw_text): key is os.getenv("OPENAI_API_KEY"), answer is what
\* the service does when it is called
AiSummarize(key, answer) ==
    IF key = None \/ key = Some("") THEN None
    ELSE IF answer.raises THEN None
    ELSE LET text == Strip(Or(answer.output_text, Some(""))[1])
         IN  IF text # "" THEN Some(text) ELSE None

\* mutant: the final message is not cut
CapNone(text) == text

\* final_msg[:3800]
Cap(text) == Take(text, MsgCap)

\* mutant: the details block is the whole raw report
FinalMsgDetailsWhole(sum, raw) ==
    Cap(IF sum # None
        THEN <<Piece("<brief title>"), NL, Piece(sum[1]), NL, NL,
               Piece("<dash>"), NL, Piece("<details title>"), NL>>
             \o raw
        ELSE raw \o <<NL, NL,
               Piece("Tip: Add OPENAI_API_KEY secret to enable AI summary.")>>)

\* mutant: the raw report is sent without the hint
FinalMsgNoTip(sum, raw) ==
    Cap(IF sum # None
        THEN <<Piece("<brief title>"), NL, Piece(sum[1]), NL, NL,
               Piece("<dash>"), NL, Piece("<details title>"), NL>>
             \o Take(raw, DetailsCap)
        ELSE raw)

\* lines 217-234: the final message
FinalMsg(sum, raw) ==
    Cap(IF sum # None
        THEN <<Piece("<brief title>"), NL, Piece(sum[1]), NL, NL,
               Piece("<dash>"), NL, Piece("<details title>"), NL>>
             \o Take(raw, DetailsCap)
        ELSE raw \o <<NL, NL,
               Piece("Tip: Add OPENAI_API_KEY secret to enable AI summary.")>>)

\* values an environment variable may have
EnvValues == {None, Some(""), Some("set")}

\* lines 215-234 when os.getenv("OPENAI_API_KEY") reads key and the service,
\* if called, does answer: ai_summarize is called and the final message is
\* composed
SummarizeWith(key, answer) ==
    /\ pc = "summarize"
    /\ summary' = AiSummarize(key, answer)
    /\ oplog' = oplog \o <<Call("ai_summarize", "")>>
                \o (IF key = Some("set")
                    THEN <<Call("responses.create", "")>> ELSE <<>>)
                \o (IF key = Some("set") /\ answer.raises
                    THEN <<Raised("responses.create")>> ELSE <<>>)
    /\ final_msg' = FinalMsg(summary', raw_msg)
    /\ pc' = "send"
    /\ UNCHANGED <<news, tickers, indices, lines, url, attempt, last_exc, all429,
                   lastKind, sleep_s, r, exc, quotes, yahoo_failed, ti, raw_msg,
                   sent>>

\* lines 215-234: summary = ai_summarize(raw_msg), then the final message
Summarize ==
    \E key \in EnvValues, answer \in AiAnswers : SummarizeWith(key, answer)

\* ------------------------------------------------------------ send_telegram

\* mutant: the test fails only when both values are absent
MissingBoth(token, chat_id) ==
    (token = None \/ token = Some("")) /\ (chat_id = None \/ chat_id = Some(""))

\* not token or not chat_id
Missing(token, chat_id) ==
    token = None \/ token = Some("") \/ chat_id = None \/ chat_id = Some("")

\* statuses the chat endpoint may answer the POST with
PostStatuses == {200, 400}

\* mutant: main calls send_telegram again after a first failed POST
SendTelegramRetry(token, chat_id, status) ==
    /\ pc = "send"
    /\ IF Missing(token, chat_id)
       THEN /\ exc' = Some([type |-> "RuntimeError", status |-> 0, at |-> 0])
            /\ oplog' = oplog \o <<Call("send_telegram", ""), Raised("send_telegram")>>
            /\ pc' = "crashed"
            /\ UNCHANGED sent
       ELSE /\ sent' = Append(sent, final_msg)
            /\ IF status \in 200..299
               THEN /\ oplog' = oplog \o <<Call("send_telegram", ""), Call("POST", "")>>
                    /\ pc' = "done"
                    /\ UNCHANGED exc
               ELSE /\ exc' = Some([type |-> "HTTPError", status |-> status, at |-> 0])
                    /\ oplog' = oplog \o <<Call("send_telegram", ""), Call("POST", ""),
                                            Raised("send_telegram")>>
                    /\ pc' = IF sent = <<>> THEN "send" ELSE "crashed"
    /\ UNCHANGED <<news, tickers, indices, lines, url, attempt, last_exc, all429,
                   lastKind, sleep_s, r, quotes, yahoo_failed, ti, raw_msg,
                   summary, final_msg>>

\* send_telegram(final_msg) when the two environment variables read token and
\* chat_id and the endpoint answers a POST with status; its exceptions leave
\* main
SendTelegramWith(token, chat_id, status) ==
    /\ pc = "send"
    /\ IF Missing(token, chat_id)
       THEN /\ exc' = Some([type |-> "RuntimeError", status |-> 0, at |-> 0])
            /\ oplog' = oplog \o <<Call("send_telegram", ""), Raised("send_telegram")>>
            /\ pc' = "crashed"
            /\ UNCHANGED sent
       ELSE /\ sent' = Append(sent, final_msg)
            /\ IF status \in 200..299
               THEN /\ oplog' = oplog \o <<Call("send_telegram", ""), Call("POST", "")>>
                    /\ pc' = "done"
                    /\ UNCHANGED exc
               ELSE /\ exc' = Some([type |-> "HTTPError", status |-> status, at |-> 0])
                    /\ oplog' = oplog \o <<Call("send_telegram", ""), Call("POST", ""),
                                            Raised("send_telegram")>>
                    /\ pc' = "crashed"
    /\ UNCHANGED <<news, tickers, indices, lines, url, attempt, last_exc, all429,
                   lastKind, sleep_s, r, quotes, yahoo_failed, ti, raw_msg,
                   summary, final_msg>>

\* line 235: send_telegram(final_msg)
SendTelegram ==
    \E token \in EnvValues, chat_id \in EnvValues, status \in PostStatuses :
        SendTelegramWith(token, chat_id, status)

\* ------------------------------------------------------------ specification

Init ==
    /\ pc = "start"
    /\ tickers = <<>>
    /\ indices = <<>>
    /\ lines = <<>>
    /\ url = ""
    /\ attempt = 0
    /\ last_exc = None
    /\ all429 = TRUE
    /\ lastKind = None
    /\ sleep_s = 0
    /\ r = None
    /\ exc = None
    /\ quotes = EmptyMap
    /\ yahoo_failed = FALSE
    /\ ti = 1
    /\ news = <<>>
    /\ raw_msg = <<>>
    /\ summary = None
    /\ final_msg = <<>>
    /\ sent = <<>>
    /\ oplog = <<>>

Next ==
    \/ Start
    \/ YfQuotesCall
    \/ GetAttempt
    \/ GetExhausted
    \/ YfQuotesParse
    \/ QuotesExcept
    \/ Compose
    \/ HeadlineStep
    \/ FinishReport
    \/ Summarize
    \/ SendTelegram

Spec == Init /\ [][Next]_vars

\* ------------------------------------------------------------------- claims

\* the report is complete: main is past line 211
Composed == pc \in {"summarize", "send", "done", "crashed"}

\* send_telegram has been called, or is the next statement
AtDelivery == pc \in {"send", "done", "crashed"}

\* C1: in get_with_retry, when the first k requests (0 <= k < 6) each answer
\* 429 and request k+1 answers with a success status, the call returns that
\* response and no error surfaces: a returned response after 429 answers only
\* is the answer to the request numbered `attempt`, nothing is in flight, and
\* an error after 429 answers only takes all 6 requests.
C1_RetryThenSuccess ==
    /\ (pc = "parse" /\ all429) =>
          /\ exc = None
          /\ attempt < MaxTries
          /\ r # None
          /\ r[1].status = 200
          /\ r[1].at = attempt
    /\ (pc = "except" /\ all429 /\ lastKind = Some("429")) => attempt = MaxTries

\* C1 witness: five 429 answers, then the sixth request succeeds and is
\* returned
C1_Witness ==
    /\ pc = "parse"
    /\ all429
    /\ attempt = MaxTries - 1
    /\ sleep_s \in {SleepFor(MaxTries - 2, j) : j \in Jitters}
    /\ r # None

\* C2: in get_with_retry, when all 6 requests answer 429, the call fails with
\* the retryable fetch error, which carries the 429 rate-limit condition as
\* its cause.
C2_ExhaustedCarries429 ==
    (pc = "except" /\ all429 /\ lastKind = Some("429") /\ attempt = MaxTries) =>
        /\ exc # None
        /\ exc[1].type \in {"HTTPError", "ConnectionError"}
        /\ exc[1].status = 429

\* C3: whatever the lengths of the watchlist, the headlines and the summary,
\* the text passed to send_telegram has at most 3800 characters.
C3_FinalLength ==
    AtDelivery =>
        /\ TextLen(final_msg) <= MsgCap
        /\ \A i \in DOMAIN sent : sent[i] = final_msg /\ TextLen(sent[i]) <= MsgCap

\* C3 witness: a report longer than the cap was composed and the text
\* delivered has exactly 3800 characters
C3_Witness ==
    /\ pc = "done"
    /\ TextLen(JoinLines(lines)) > MsgCap
    /\ Len(sent) = 1
    /\ TextLen(sent[1]) = MsgCap

\* ------------------------------------------------- sections of the report

\* the index of the line that is the header h
HeaderAt(h) == CHOOSE i \in 1..Len(lines) : lines[i] = <<h>>

\* the lines of the section headed by h: those after the header, up to the
\* next empty line or the end of the report
SectionOf(h) ==
    LET i == HeaderAt(h)
        stops == {j \in (i + 1)..Len(lines) : lines[j] = <<"">>}
        e == IF stops = {} THEN Len(lines) + 1
             ELSE CHOOSE j \in stops : \A k \in stops : j <= k
    IN  SubSeq(lines, i + 1, e - 1)

\* an exception has left `from`
HasRaised(from) == \E i \in DOMAIN oplog : oplog[i] = Raised(from)

\* the arguments of the calls of `op`, in order
RECURSIVE ArgsOf(_, _)
ArgsOf(log, op) ==
    IF log = <<>> THEN <<>>
    ELSE (IF Head(log).op = op THEN <<Head(log).arg>> ELSE <<>>)
         \o ArgsOf(Tail(log), op)

NoData(sym) == <<"- " \o sym \o ": (no data)">>

\* line is a line written for sym
IsLineOf(line, sym) ==
    LET p == "- " \o sym \o ": "
    IN  /\ Len(line[1]) >= Len(p)
        /\ SubSeq(line[1], 1, Len(p)) = p

\* C4: whatever the quote fetch, each headline fetch and the summarizer do,
\* main does not end with an error before delivery: some statement is always
\* next until send_telegram has been called, only send_telegram's exception
\* ends main, and at delivery the text is composed with a placeholder for
\* each failure (the warning and "(no data)" lines, the "(news fetch
\* failed)" line, the raw report in place of the brief).
C4_DegradeNotAbort ==
    /\ pc \notin {"done", "crashed"} => ENABLED Next
    /\ pc = "crashed" =>
          /\ oplog[Len(oplog)] = Raised("send_telegram")
          /\ exc # None
          /\ exc[1].type \in {"RuntimeError", "HTTPError"}
    /\ AtDelivery =>
          /\ final_msg # <<>>
          /\ HasRaised("yf_quotes") =>
                /\ lines[Len(lines)] = <<"<warning>">>
                /\ \A i \in DOMAIN tickers :
                      SectionOf("<your stocks>")[i] = NoData(tickers[i])
                /\ \A i \in DOMAIN indices :
                      SectionOf("<market pulse>")[i] = NoData(indices[i])
          /\ \A i \in DOMAIN news :
                news[i] = None =>
                    \E k \in DOMAIN SectionOf("<headlines>") :
                        SectionOf("<headlines>")[k] =
                            <<"- " \o tickers[i] \o ": (news fetch failed)">>
          /\ summary = None => Take(final_msg, TextLen(raw_msg)) = raw_msg

\* C4 witness: the quote fetch failed, a headline fetch failed and the
\* summarizer failed, and the text was delivered
C4_Witness ==
    /\ pc = "done"
    /\ HasRaised("yf_quotes")
    /\ HasRaised("news_for")
    /\ HasRaised("responses.create")
    /\ Len(sent) = 1

\* C5: when yf_quotes raises, the report holds the "(no data)" line for every
\* symbol of tickers and of indices, and the warning section (an empty line
\* and the warning) is appended right after the headlines section.
C5_QuoteFailurePlaceholders ==
    (Composed /\ HasRaised("yf_quotes")) =>
        /\ tickers # <<>> =>
              SectionOf("<your stocks>") =
                  [i \in 1..Len(tickers) |-> NoData(tickers[i])]
        /\ indices # <<>> =>
              SectionOf("<market pulse>") =
                  [i \in 1..Len(indices) |-> NoData(indices[i])]
        /\ Len(lines) >= 2
        /\ lines[Len(lines)] = <<"<warning>">>
        /\ lines[Len(lines) - 1] = <<"">>
        /\ HeaderAt("<headlines>") + Len(SectionOf("<headlines>")) = Len(lines) - 2

\* C5 witness: all six requests failed, and the report of a ticker and an
\* index is composed
C5_Witness ==
    /\ Composed
    /\ HasRaised("yf_quotes")
    /\ tickers # <<>>
    /\ indices # <<>>
    /\ news # <<>>
    /\ news[1] # None

\* C6: each entry of tickers has exactly one line in the holdings section and
\* each entry of indices exactly one line in the indices section, in
\* watchlist order, with or without a quote.
C6_OneLinePerSymbol ==
    Composed =>
        /\ tickers # <<>> =>
              /\ Len(SectionOf("<your stocks>")) = Len(tickers)
              /\ \A i \in DOMAIN tickers :
                    IsLineOf(SectionOf("<your stocks>")[i], tickers[i])
        /\ indices # <<>> =>
              /\ Len(SectionOf("<market pulse>")) = Len(indices)
              /\ \A i \in DOMAIN indices :
                    IsLineOf(SectionOf("<market pulse>")[i], indices[i])

\* C6 witness: a ticker without a quote and an index with one
C6_Witness ==
    /\ Composed
    /\ ~yahoo_failed
    /\ Len(tickers) = 1
    /\ Len(indices) = 1
    /\ tickers[1] \notin DOMAIN quotes
    /\ indices[1] \in DOMAIN quotes

\* what Python writes for f"{cpct:+.2f}", for the change percents explored
\* (in thousandths)
PythonPct(c) ==
    CASE c = 1234   -> "+1.23"
      [] c = -567   -> "-0.57"
      [] c = -1     -> "-0.00"
      [] c = -12346 -> "-12.35"

\* the line the claim gives for sym
ClaimedLine(sym) ==
    IF \/ sym \notin DOMAIN quotes
       \/ quotes[sym].price = None
       \/ quotes[sym].change_pct = None
    THEN <<"- " \o sym \o ": (no data)">>
    ELSE <<"- " \o sym \o ": " \o quotes[sym].price[1] \o " "
           \o (IF quotes[sym].currency = None THEN "" ELSE quotes[sym].currency[1])
           \o " (" \o PythonPct(quotes[sym].change_pct[1]) \o "%)">>

\* C7: a symbol that is no key of the quote map, or whose quote lacks the
\* price or the change percent, is rendered "- {symbol}: (no data)"; a quote
\* with both is rendered "- {symbol}: {price} {currency} ({changePct:+.2f}%)".
C7_LineFormat ==
    Composed =>
        /\ \A i \in DOMAIN tickers :
              SectionOf("<your stocks>")[i] = ClaimedLine(tickers[i])
        /\ \A i \in DOMAIN indices :
              SectionOf("<market pulse>")[i] = ClaimedLine(indices[i])

\* C7 witness: one symbol rendered with its price and a positive change, one
\* rendered "(no data)" for a quote that lacks a field or is missing
C7_Witness ==
    /\ Composed
    /\ ~yahoo_failed
    /\ \E i \in DOMAIN tickers :
          SectionOf("<your stocks>")[i] = <<"- AAPL: 150.0 USD (+1.23%)">>
    /\ \E i \in DOMAIN indices :
          SectionOf("<market pulse>")[i] = <<"- ^GSPC: (no data)">>

\* C8: when tickers is empty, the holdings section is exactly one placeholder
\* line, the headlines section is exactly one placeholder line, and news_for
\* is not called.
C8_EmptyTickers ==
    (Composed /\ tickers = <<>>) =>
        /\ SectionOf("<your stocks>") = << <<"- (no tickers in holdings.json)">> >>
        /\ SectionOf("<headlines>") = << <<"- (no tickers to fetch news for)">> >>
        /\ ArgsOf(oplog, "news_for") = <<>>
        /\ news = <<>>

\* C8 witness: no tickers, an index, and the warning after the headlines
\* section
C8_Witness ==
    /\ Composed
    /\ tickers = <<>>
    /\ indices # <<>>
    /\ yahoo_failed

\* the entries of s that no earlier entry equals, in order
RECURSIVE FirstOccFrom(_, _)
FirstOccFrom(s, i) ==
    IF i > Len(s) THEN <<>>
    ELSE (IF \A j \in 1..(i - 1) : s[j] # s[i] THEN <<s[i]>> ELSE <<>>)
         \o FirstOccFrom(s, i + 1)

FirstOcc(s) == FirstOccFrom(s, 1)

\* the position of the first comma of the string s, 0 when it has none
RECURSIVE CommaAt(_, _)
CommaAt(s, i) ==
    IF i > Len(s) THEN 0
    ELSE IF SubSeq(s, i, i) = "," THEN i
    ELSE CommaAt(s, i + 1)

\* the symbols of a comma-joined query (the empty query holds none)
RECURSIVE SplitComma(_)
SplitComma(s) ==
    IF s = "" THEN <<>>
    ELSE LET c == CommaAt(s, 1)
         IN  IF c = 0 THEN <<s>>
             ELSE IF c = Len(s) THEN <<SubSeq(s, 1, c - 1), "">>
             ELSE <<SubSeq(s, 1, c - 1)>> \o SplitComma(SubSeq(s, c + 1, Len(s)))

\* yf_quotes has built its query
Queried == oplog # <<>>

ClaimedBlock(t, res) ==
    IF res = None THEN << <<"- " \o t \o ": (news fetch failed)">> >>
    ELSE IF res[1] = <<>> THEN << <<"- " \o t \o ": (no headlines found)">> >>
    ELSE [k \in 1..Len(res[1]) |-> <<"- " \o t \o ": ", res[1][k]>>]

RECURSIVE ClaimedBlocks(_)
ClaimedBlocks(i) ==
    IF i > Len(news) THEN <<>>
    ELSE ClaimedBlock(tickers[i], news[i]) \o ClaimedBlocks(i + 1)

\* C10: a failure of news_for for one ticker yields the line
\* "- {symbol}: (news fetch failed)" for that ticker only: news_for is called
\* exactly once for every ticker, in watchlist order, and the lines of each
\* ticker are those of its own result, whatever the other calls did.
C10_HeadlineFailureIsolated ==
    /\ pc = "headlines" =>
          ArgsOf(oplog, "news_for") = SubSeq(tickers, 1, ti - 1)
    /\ (Composed /\ tickers # <<>>) =>
          /\ ArgsOf(oplog, "news_for") = tickers
          /\ Len(news) = Len(tickers)
          /\ SectionOf("<headlines>") = ClaimedBlocks(1)

\* C10 witness: the first of two headline fetches failed and the second gave
\* headlines
C10_Witness ==
    /\ Composed
    /\ Len(tickers) = 2
    /\ news[1] = None
    /\ news[2] # None
    /\ news[2][1] # <<>>

\* ------------------------------------------------------- the final message

\* the brief as composed on lines 223-229, before the last cut
ClaimedBrief ==
    <<Piece("<brief title>"), NL, Piece(summary[1]), NL, NL,
      Piece("<dash>"), NL, Piece("<details title>"), NL>>
    \o Take(raw_msg, DetailsCap)

\* the text ends with the pieces of tail
EndsWith(text, tail) ==
    /\ Len(text) >= Len(tail)
    /\ SubSeq(text, Len(text) - Len(tail) + 1, Len(text)) = tail

\* C11 (as stated): whenever ai_summarize returns a non-empty summary, the
\* final message passed to send_telegram is the line "AI Weekly Brief", the
\* whole summary, an empty line, the separator line, the "Details" line and
\* the raw report capped to 2000 characters.
C11_BriefWhole ==
    (AtDelivery /\ summary # None) => final_msg = ClaimedBrief

\* C11 (amended): whenever ai_summarize returns a non-empty summary, the
\* final message begins with "AI Weekly Brief" and is the first 3800
\* characters of the composed brief; the summary, the separator, the
\* "Details" line and the raw report capped to 2000 characters are all
\* present in full when the composed brief has at most 3800 characters.
C11_BriefCapped ==
    (AtDelivery /\ summary # None) =>
        /\ final_msg[1] = Piece("<brief title>")
        /\ final_msg = Take(ClaimedBrief, MsgCap)
        /\ TextLen(ClaimedBrief) <= MsgCap =>
              /\ final_msg = ClaimedBrief
              /\ final_msg[3] = Piece(summary[1])
              /\ EndsWith(final_msg, Take(raw_msg, DetailsCap))
              /\ TextLen(final_msg) - TextLen(SubSeq(final_msg, 1, 9))
                    = (IF TextLen(raw_msg) < DetailsCap
                       THEN TextLen(raw_msg) ELSE DetailsCap)
        /\ \A i \in DOMAIN sent : sent[i] = final_msg

\* C11 witness: a brief was delivered whose details block is a raw report of
\* more than 2000 characters cut to 2000
C11_Witness ==
    /\ pc = "done"
    /\ summary = Some("Markets rose.")
    /\ TextLen(raw_msg) > DetailsCap
    /\ Len(sent) = 1
    /\ sent[1] = ClaimedBrief
    /\ TextLen(sent[1]) = TextLen(SubSeq(sent[1], 1, 9)) + DetailsCap
    /\ TextLen(sent[1]) < MsgCap

\* the raw report followed by the hint, as composed on line 232
ClaimedFallback ==
    raw_msg \o <<NL, NL,
        Piece("Tip: Add OPENAI_API_KEY secret to enable AI summary.")>>

\* C12 (as stated): whenever no summary is produced, the final message
\* passed to send_telegram is the raw report followed by the hint, so the
\* delivered text ends with the hint line.
C12_EndsWithHint ==
    (AtDelivery /\ summary = None) => final_msg = ClaimedFallback

\* C12 (amended): whenever no summary is produced, the final message is the
\* first 3800 characters of the raw report followed by an empty line and
\* the hint; it ends with the whole hint line when raw report and hint
\* together have at most 3800 characters.
C12_HintCapped ==
    (AtDelivery /\ summary = None) =>
        /\ final_msg = Take(ClaimedFallback, MsgCap)
        /\ Take(final_msg, TextLen(raw_msg)) = raw_msg
        /\ TextLen(ClaimedFallback) <= MsgCap =>
              /\ final_msg = ClaimedFallback
              /\ EndsWith(final_msg, <<NL, NL,
                    Piece("Tip: Add OPENAI_API_KEY secret to enable AI summary.")>>)
        /\ \A i \in DOMAIN sent : sent[i] = final_msg

\* C12 witness: the summarizer was called and failed, and the raw report
\* with the whole hint was delivered
C12_Witness ==
    /\ pc = "done"
    /\ summary = None
    /\ HasRaised("responses.create")
    /\ Len(sent) = 1
    /\ sent[1] = ClaimedFallback
    /\ sent[1][Len(sent[1])].n = 52

\* ----------------------------------------------------------- send_telegram

\* os.getenv gave no value, or the empty one
Absent(v) == v = None \/ v = Some("")

\* the number of calls of `op` in the log
Count(log, op) == Cardinality({i \in DOMAIN log : log[i].op = op})

\* the number of POSTs issued so far
Posts(log) == Count(log, "POST")

Blank(s) ==
    /\ s \notin DOMAIN BlockSize
    /\ \A k \in 1..Len(s) : SubSeq(s, k, k) = " "

\* t is s without its leading and trailing blanks, s not blank
IsTrimOf(t, s) ==
    IF s \in DOMAIN BlockSize THEN t = s
    ELSE \E i \in 1..Len(s), j \in 1..Len(s) :
            /\ t = SubSeq(s, i, j)
            /\ SubSeq(s, i, i) # " "
            /\ SubSeq(s, j, j) # " "
            /\ \A k \in 1..Len(s) : (k < i \/ k > j) => SubSeq(s, k, k) = " "

Stripped(t, s) == t # "" /\ IsTrimOf(t, s)

\* res is what the claim allows news_for(symbol, limit) to return for the
\* feed: at most limit titles, each the non-empty stripped title of an entry
\* of the feed, in the order of the feed
NewsOk(res, feed, limit) ==
    /\ Len(res) <= limit
    /\ \A k \in DOMAIN res : res[k] # ""
    /\ \E f \in [DOMAIN res -> DOMAIN feed] :
          /\ \A k \in DOMAIN res : \A m \in DOMAIN res : k < m => f[k] < f[m]
          /\ \A k \in DOMAIN res :
                /\ feed[f[k]] # None
                /\ Stripped(res[k], feed[f[k]][1])

\* C15: news_for(symbol, limit) returns at most limit titles, each of them
\* non-empty and without surrounding blanks, in the relative order of the
\* feed: for the call main makes (limit 3) on each feed read, and for every
\* limit from 0 to MaxLimit on the same feed.
C15_NewsFor ==
    [][\A feed \in Feeds :
          HeadlineStepWith(Some(feed)) =>
              /\ news'[Len(news')] # None
              /\ NewsOk(news'[Len(news')][1], feed, NewsLimit)
              /\ \A limit \in 0..MaxLimit :
                    NewsOk(NewsFor(feed, limit), feed, limit)]_vars

\* C15 witness: news_for read a feed of four entries, two of them without a
\* usable title, and returned the one stripped title among the first three
C15_Witness ==
    /\ pc = "headlines"
    /\ news # <<>>
    /\ news[Len(news)] = Some(<<"Apple up">>)
    /\ ArgsOf(oplog, "news_for") = SubSeq(tickers, 1, Len(news))

\* ----------------------------------------------------------- get_with_retry

\* C16: get_with_retry ends after at most 6 requests whatever each request
\* answers: a request is made only while fewer than 6 were made, each either
\* returns its response or is counted, and after the 6th failure the call
\* raises; the failing request numbered k (0..5) is followed by a sleep of
\* 2^k seconds (1, 2, 4, 8, 16, 32) plus a jitter between 0.5 and 1.5, for a
\* 429 as for any other error (sleeps are in tenths of a second).
C16_RetryBounded ==
    [][pc = "get" =>
          /\ attempt \in 0..MaxTries
          /\ attempt = MaxTries =>
                /\ pc' = "except"
                /\ exc' # None
                /\ attempt' = attempt
          /\ attempt < MaxTries =>
                /\ lastKind' # None
                /\ IF lastKind' = Some("200")
                   THEN /\ pc' = "parse"
                        /\ r' # None
                        /\ attempt' = attempt
                   ELSE /\ pc' = "get"
                        /\ lastKind'[1] \in {"429", "500", "conn"}
                        /\ attempt' = attempt + 1
                        /\ sleep_s' - 10 * <<1, 2, 4, 8, 16, 32>>[attempt + 1]
                              \in 5..15]_vars

\* C16 witness: six requests failed, not all of them with a 429, the sixth
\* with a 429 followed by a sleep of 32 seconds plus the jitter, and the call
\* has raised
C16_Witness ==
    /\ pc = "except"
    /\ attempt = MaxTries
    /\ ~all429
    /\ lastKind = Some("429")
    /\ sleep_s \in {325, 335}
    /\ exc # None

\* the error the answer `kind` to the request numbered a stands for
CauseOf(kind, a) ==
    CASE kind = "429"  -> [type |-> "HTTPError", status |-> 429, at |-> a]
      [] kind = "500"  -> [type |-> "HTTPError", status |-> 500, at |-> a]
      [] kind = "conn" -> [type |-> "ConnectionError", status |-> 0, at |-> a]

\* C17: when 6 requests have failed, some with a 429 and some with another
\* error, the error raised by get_with_retry is the one observed on the 6th
\* request, not the one of an earlier request.
C17_LastCause ==
    (pc = "except" /\ attempt = MaxTries /\ ~all429) =>
        /\ exc # None
        /\ exc[1] = CauseOf(lastKind[1], MaxTries - 1)

\* ------------------------------------------------------ order of the report

\* the places of the header h in the report
PlacesOf(h) == {i \in 1..Len(lines) : lines[i] = <<h>>}

RECURSIVE Collapse(_)
\* q with each run of equal neighbours reduced to one element
Collapse(q) ==
    IF Len(q) <= 1 THEN q
    ELSE IF q[1] = q[2] THEN Collapse(Tail(q))
    ELSE <<q[1]>> \o Collapse(Tail(q))

\* the symbol of syms the line is written for
SymOf(line, syms) ==
    CHOOSE s \in {syms[i] : i \in DOMAIN syms} : IsLineOf(line, s)

\* the lines of the section are written for the symbols of syms, one line
\* each, in the order of syms
OneLineEach(section, syms) ==
    /\ Len(section) = Len(syms)
    /\ \A i \in DOMAIN syms : IsLineOf(section[i], syms[i])

\* the lines of the section are written for the symbols of syms, one or
\* more lines each, in the order of syms
InOrderOf(section, syms) ==
    /\ \A k \in DOMAIN section :
          \E i \in DOMAIN syms : IsLineOf(section[k], syms[i])
    /\ Collapse([k \in DOMAIN section |-> SymOf(section[k], syms)])
          = Collapse(syms)

\* C18: in the composed report the sections come in the order title,
\* timestamp, holdings, indices, headlines and, if present, the warning,
\* each header once and each section separated from the next by one empty
\* line; within the holdings, indices and headlines sections the lines of
\* the symbols follow the order of the watchlist, whatever the fetches did.
C18_SectionOrder ==
    Composed =>
        LET st == HeaderAt("<your stocks>")
            mp == HeaderAt("<market pulse>")
            hl == HeaderAt("<headlines>")
            e  == hl + Len(SectionOf("<headlines>"))
        IN  /\ \A h \in {"<title>", "<your stocks>", "<market pulse>", "<headlines>"} :
                  Cardinality(PlacesOf(h)) = 1
            /\ lines[1] = <<"<title>">>
            /\ lines[2] = <<"<generated: >", "<now_utc>">>
            /\ lines[3] = <<"">>
            /\ st = 4
            /\ mp = st + Len(SectionOf("<your stocks>")) + 2
            /\ lines[mp - 1] = <<"">>
            /\ hl = mp + Len(SectionOf("<market pulse>")) + 2
            /\ lines[hl - 1] = <<"">>
            /\ IF PlacesOf("<warning>") # {}
               THEN /\ PlacesOf("<warning>") = {e + 2}
                    /\ lines[e + 1] = <<"">>
                    /\ Len(lines) = e + 2
               ELSE Len(lines) = e
            /\ tickers # <<>> =>
                  /\ OneLineEach(SectionOf("<your stocks>"), tickers)
                  /\ InOrderOf(SectionOf("<headlines>"), tickers)
            /\ indices # <<>> =>
                  OneLineEach(SectionOf("<market pulse>"), indices)

\* C18 witness: a report with two different tickers, where the quote fetch
\* failed, the first headline fetch gave two headlines and the
\* second failed, so that all five sections are present
C18_Witness ==
    /\ Composed
    /\ tickers = <<"MSFT", "AAPL">>
    /\ SectionOf("<your stocks>") = <<NoData("MSFT"), NoData("AAPL")>>
    /\ PlacesOf("<warning>") # {}
    /\ Len(news) = 2
    /\ news[1] # None
    /\ Len(news[1][1]) = 2
    /\ news[2] = None
    /\ Len(SectionOf("<headlines>")) = 3

\* C19: the report holds the warning if and only if an exception left
\* yf_quotes (the requests exhausted, or a body that is not JSON): when
\* yf_quotes returned a map, be it empty or without any symbol of the
\* watchlist, there is no warning, whatever the headline fetches did; and no
\* warning is written before the report is finished.
C19_WarningIffQuotesRaised ==
    /\ Composed =>
          /\ (PlacesOf("<warning>") # {}) <=> HasRaised("yf_quotes")
          /\ HasRaised("yf_quotes") <=> yahoo_failed
    /\ ~Composed => PlacesOf("<warning>") = {}

\* C19 witness: yf_quotes returned the empty map, a headline fetch failed,
\* and the finished report has no warning
C19_Witness ==
    /\ Composed
    /\ ArgsOf(oplog, "yf_quotes") # <<>>
    /\ ~HasRaised("yf_quotes")
    /\ quotes = EmptyMap
    /\ tickers # <<>>
    /\ HasRaised("news_for")
    /\ PlacesOf("<warning>") = {}

\* ------------------------------------------------------ order of operations

\* the calls main makes, in order
MainCalls ==
    SelectSeq(oplog, LAMBDA e :
        e.op \in {"yf_quotes", "news_for", "ai_summarize", "send_telegram"})

\* the calls of a whole run: the batch of quotes, the headlines of each
\* ticker, the summarizer, the delivery
ExpectedCalls ==
    <<Call("yf_quotes", url)>>
    \o [i \in 1..Len(tickers) |-> Call("news_for", tickers[i])]
    \o <<Call("ai_summarize", ""), Call("send_telegram", "")>>

IsPrefix(a, b) == Len(a) <= Len(b) /\ SubSeq(b, 1, Len(a)) = a

\* the elements of the sequence q
Range(q) == {q[i] : i \in DOMAIN q}

\* GETs issued by the current call of get_with_retry
Requests == attempt + (IF r # None THEN 1 ELSE 0)

\* C20: in every run main calls yf_quotes once, for the symbols of tickers
\* and indices together, with at most 6 GETs, all of the one batch URL;
\* then news_for once per entry of tickers, in order, and never for an
\* index; then ai_summarize once; then send_telegram once.  send_telegram is
\* not called before the fetches and the summarizer have returned, and not
\* called a second time; at most one POST is made.
C20_OrderOfOperations ==
    /\ IsPrefix(MainCalls, ExpectedCalls)
    /\ Len(MainCalls) =
          CASE pc \in {"start", "quotes"} -> 0
            [] pc \in {"get", "parse", "except", "compose"} -> 1
            [] pc = "headlines" -> ti
            [] pc = "summarize" -> Len(tickers) + 1
            [] pc = "send" -> Len(tickers) + 2
            [] pc \in {"done", "crashed"} -> Len(tickers) + 3
    /\ Requests <= MaxTries
    /\ pc \notin {"get", "parse", "except"} => Requests = 0
    /\ pc \notin {"start", "quotes"} =>
          {x \in Range(SplitComma(url)) : x # ""} =
              {x \in Range(tickers \o indices) : x # ""}
    /\ pc = "send" => final_msg # <<>> /\ ti = Len(tickers) + 1
    /\ Posts(oplog) = Len(sent)
    /\ Posts(oplog) <= 1
    /\ Posts(oplog) = 1 => pc \in {"done", "crashed"}

\* C20 witness: a run with a ticker and an index has ended with a delivery
\* after the quote fetch failed: the four calls were made in order
C20_Witness ==
    /\ pc = "done"
    /\ Len(tickers) = 1
    /\ Len(indices) = 1
    /\ HasRaised("yf_quotes")
    /\ MainCalls = ExpectedCalls
    /\ Len(MainCalls) = 4
    /\ Posts(oplog) = 1

====
